---------------------------- MODULE Spec2Model ----------------------------
(***************************************************************************)
(* Model of the mini-batcher front end (src/frontend/src/api.ts) and of    *)
(* the task store / scheduler it talks to.                                 *)
(*                                                                         *)
(* Strings are sequences of one-character strings, so that split, trim,    *)
(* parseInt and parseFloat are computed character by character.            *)
(* Numbers are records [kind, m, e]: kind "num" stands for m / 10^e (e >= 0,*)
(* normalised), kind "nan" for NaN and kind "inf" for Infinity.            *)
(***************************************************************************)
EXTENDS Integers, Sequences, FiniteSets, TLC

\* ------------------------------------------------------------------------
\* Bounds of the model
\* ------------------------------------------------------------------------

\* longest value specification typed character by character
MaxLen == 4

\* most handleSubmit invocations in flight at once
MaxInFlight == 2

\* most tasks ever created
MaxTasks == 2

\* most combinations of one task
MaxCombos == 3

\* runTask is no longer requested for a task whose completed_count exceeds this
MaxCompleted == 3

\* calls of the exported initApp beyond the automatic one and the one of setup.js
MaxCalls == 4

VARIABLES
    \* CreateTask component state (useState)
    name, nodeId, submitting, error, seedConfig, stepsConfig, cfgConfig,
    \* CreateTask: useMemo over generateParams
    taskCount,
    \* handleSubmit invocations suspended at an await, oldest first
    handlers,
    \* one row's text input and the value list its render computes from it
    rowValues, rowParsed,
    \* Task Store: the persisted task records by id, and the next id to assign
    tasks, nextId,
    \* Scheduler: the single worker's position in its loop
    worker,
    \* Execution Engine Adapter: submissions not yet terminally succeeded or failed
    inflight,
    \* the host page: document.readyState, the DOMContentLoaded listener of the
    \* bundle, elements with id "mini-batcher-root", error notices shown
    readyState, listener, rootElements, errorDivs,
    \* React roots created (createRoot) and rendered (root.render)
    reactRoots, rendered,
    \* setup.js: position of initMiniBatcher; calls of initApp made so far
    setupPc, initCalls,
    \* App component state (useState): the panel and its active tab
    isOpen, activeTab

formVars == <<name, nodeId, submitting, error, seedConfig, stepsConfig, cfgConfig, taskCount>>

rowVars == <<rowValues, rowParsed>>

schedVars == <<tasks, nextId, worker, inflight>>

panelVars == <<isOpen, activeTab>>

appVars == <<readyState, listener, rootElements, errorDivs, reactRoots, rendered, setupPc, initCalls,
             panelVars>>

vars == <<formVars, handlers, rowVars, schedVars, appVars>>

\* ------------------------------------------------------------------------
\* JavaScript numbers
\* ------------------------------------------------------------------------

NaN == [kind |-> "nan", m |-> 0, e |-> 0]

Infinity == [kind |-> "inf", m |-> 1, e |-> 0]

IntNum(i) == [kind |-> "num", m |-> i, e |-> 0]

isNaN(x) == x.kind = "nan"

RECURSIVE Pow10(_)
Pow10(k) == IF k <= 0 THEN 1 ELSE 10 * Pow10(k - 1)

\* m / 10^e with the trailing zeros of the fraction removed
RECURSIVE Normalize(_, _)
Normalize(m, e) ==
    IF e > 0 /\ m % 10 = 0 THEN Normalize(m \div 10, e - 1)
    ELSE [kind |-> "num", m |-> m, e |-> e]

\* ------------------------------------------------------------------------
\* JavaScript strings
\* ------------------------------------------------------------------------

WhiteSpace == {" ", "\t", "\n"}

DecDigits == {"0", "1", "2", "3", "4", "5", "6", "7", "8", "9"}

HexDigits == DecDigits \cup {"a", "b", "c", "d", "e", "f", "A", "B", "C", "D", "E", "F"}

DigitVal(c) ==
    CASE c = "0" -> 0 [] c = "1" -> 1 [] c = "2" -> 2 [] c = "3" -> 3
      [] c = "4" -> 4 [] c = "5" -> 5 [] c = "6" -> 6 [] c = "7" -> 7
      [] c = "8" -> 8 [] c = "9" -> 9
      [] c \in {"a", "A"} -> 10 [] c \in {"b", "B"} -> 11
      [] c \in {"c", "C"} -> 12 [] c \in {"d", "D"} -> 13
      [] c \in {"e", "E"} -> 14 [] c \in {"f", "F"} -> 15
      [] OTHER -> 0

\* the value `undefined`, as a destructured array element that is missing
UNDEF == <<"undefined">>

Drop(s, n) == IF n >= Len(s) THEN <<>> ELSE SubSeq(s, n + 1, Len(s))

StartsWith(s, p) == Len(s) >= Len(p) /\ SubSeq(s, 1, Len(p)) = p

\* String.prototype.split(sep) for a one-character separator
RECURSIVE SplitAcc(_, _, _, _)
SplitAcc(s, sep, i, cur) ==
    IF i > Len(s) THEN <<cur>>
    ELSE IF s[i] = sep THEN <<cur>> \o SplitAcc(s, sep, i + 1, <<>>)
    ELSE SplitAcc(s, sep, i + 1, Append(cur, s[i]))

Split(s, sep) == SplitAcc(s, sep, 1, <<>>)

RECURSIVE TrimStart(_)
TrimStart(s) ==
    IF s # <<>> /\ s[1] \in WhiteSpace THEN TrimStart(Tail(s)) ELSE s

RECURSIVE TrimEnd(_)
TrimEnd(s) ==
    IF s # <<>> /\ s[Len(s)] \in WhiteSpace
    THEN TrimEnd(SubSeq(s, 1, Len(s) - 1)) ELSE s

\* String.prototype.trim
Trim(s) == TrimEnd(TrimStart(s))

\* String.prototype.includes for a one-character needle
Includes(s, c) == \E i \in 1..Len(s) : s[i] = c

\* element i of a destructured array: undefined when the array is shorter
Nth(arr, i) == IF i <= Len(arr) THEN arr[i] ELSE UNDEF

\* truthiness of a string-or-undefined value
Truthy(s) == s # UNDEF /\ s # <<>>

\* number of leading characters of s that are digits of the set ds
RECURSIVE DigitRun(_, _)
DigitRun(s, ds) ==
    IF s # <<>> /\ s[1] \in ds THEN 1 + DigitRun(Tail(s), ds) ELSE 0

\* value of the digit string s in the given radix, most significant first
RECURSIVE DigitsValue(_, _, _)
DigitsValue(s, radix, acc) ==
    IF s = <<>> THEN acc
    ELSE DigitsValue(Tail(s), radix, acc * radix + DigitVal(s[1]))

\* the longest prefix of s made of digits of the radix, as a number
IntDigits(s, ds, radix, neg) ==
    LET n == DigitRun(s, ds)
    IN  IF n = 0 THEN NaN
        ELSE IF neg THEN IntNum(-DigitsValue(SubSeq(s, 1, n), radix, 0))
        ELSE IntNum(DigitsValue(SubSeq(s, 1, n), radix, 0))

\* s after its sign: a 0x or 0X prefix selects radix 16
IntUnsigned(s, neg) ==
    IF StartsWith(s, <<"0", "x">>) \/ StartsWith(s, <<"0", "X">>)
    THEN IntDigits(Drop(s, 2), HexDigits, 16, neg)
    ELSE IntDigits(s, DecDigits, 10, neg)

\* parseInt(string) with no radix argument
parseInt(str) ==
    LET s == TrimStart(str)
    IN  IF s # <<>> /\ s[1] \in {"-", "+"}
        THEN IntUnsigned(Tail(s), s[1] = "-")
        ELSE IntUnsigned(s, FALSE)

\* the exponent part at the head of s: e or E, an optional sign and at least
\* one digit; 0 when s does not start with one
ExponentOf(s) ==
    IF s # <<>> /\ s[1] \in {"e", "E"}
    THEN LET t    == Tail(s)
             sgn  == t # <<>> /\ t[1] \in {"-", "+"}
             ds   == IF sgn THEN Tail(t) ELSE t
             xv   == DigitsValue(SubSeq(ds, 1, DigitRun(ds, DecDigits)), 10, 0)
         IN  IF sgn /\ t[1] = "-" THEN -xv ELSE xv
    ELSE 0

\* digits (integer part then nf fraction digits) scaled by 10^x
FloatValue(digits, nf, x, neg) ==
    LET mant == DigitsValue(digits, 10, 0)
        sm   == IF neg THEN -mant ELSE mant
    IN  IF x >= nf THEN IntNum(sm * Pow10(x - nf)) ELSE Normalize(sm, nf - x)

\* s after its sign: Infinity, or digits [. digits] [exponent], or . digits [exponent]
FloatUnsigned(s, neg) ==
    IF StartsWith(s, <<"I", "n", "f", "i", "n", "i", "t", "y">>) THEN Infinity
    ELSE LET ni   == DigitRun(s, DecDigits)
             rest == Drop(s, ni)
             dot  == rest # <<>> /\ rest[1] = "."
             nf   == IF dot THEN DigitRun(Tail(rest), DecDigits) ELSE 0
         IN  IF ni + nf = 0 THEN NaN
             ELSE FloatValue(SubSeq(s, 1, ni) \o SubSeq(rest, 2, 1 + nf), nf,
                             ExponentOf(IF dot THEN Drop(rest, 1 + nf) ELSE rest), neg)

\* parseFloat(string): the longest prefix that is a StrDecimalLiteral
parseFloat(str) ==
    LET s == TrimStart(str)
    IN  IF s # <<>> /\ s[1] \in {"-", "+"}
        THEN FloatUnsigned(Tail(s), s[1] = "-")
        ELSE FloatUnsigned(s, FALSE)

\* ------------------------------------------------------------------------
\* CreateTask: parseValues
\* ------------------------------------------------------------------------

\* mutant: the loop stops before end (i < end)
RangeLoopExclusive(start, end, step) ==
    LET n == IF start < end THEN ((end - 1 - start) \div step) + 1 ELSE 0
    IN  [k \in 1..n |-> IntNum(start + (k - 1) * step)]

\* for (let i = start; i <= end; i += step) result.push(i), for step > 0:
\* the n values pushed, n being the number of iterations the loop makes
RangeLoop(start, end, step) ==
    LET n == IF start <= end THEN ((end - start) \div step) + 1 ELSE 0
    IN  [k \in 1..n |-> IntNum(start + (k - 1) * step)]

\* mutant: a negative step is taken by its magnitude instead of being refused
RangeValuesAbsStep(start, end, step) ==
    IF ~isNaN(start) /\ ~isNaN(end) /\ ~isNaN(step) /\ step.m # 0
    THEN RangeLoop(start.m, end.m, IF step.m < 0 THEN -step.m ELSE step.m)
    ELSE <<>>

\* if (!isNaN(start) && !isNaN(end) && !isNaN(step) && step > 0) { loop }
RangeValues(start, end, step) ==
    IF ~isNaN(start) /\ ~isNaN(end) /\ ~isNaN(step) /\ step.m > 0
    THEN RangeLoop(start.m, end.m, step.m)
    ELSE <<>>

\* const [startStr, endStr] = range.split("-"), and the three parseInt calls
RangeOf(bounds, stepStr) ==
    RangeValues(parseInt(Nth(bounds, 1)), parseInt(Nth(bounds, 2)),
                IF Truthy(stepStr) THEN parseInt(stepStr) ELSE IntNum(1))

\* const [range, stepStr] = part.split(":")
RangePart(pieces) == RangeOf(Split(Nth(pieces, 1), "-"), Nth(pieces, 2))

\* const val = parseFloat(part); if (!isNaN(val)) result.push(val)
SinglePart(val) == IF ~isNaN(val) THEN <<val>> ELSE <<>>

\* the body of the loop over the parts: what one part pushes onto result
parsePart(part) ==
    IF Includes(part, "-") THEN RangePart(Split(part, ":"))
    ELSE SinglePart(parseFloat(part))

RECURSIVE parseParts(_)
parseParts(parts) ==
    IF parts = <<>> THEN <<>>
    ELSE parsePart(Trim(Head(parts))) \o parseParts(Tail(parts))

parseValues(input) == parseParts(Split(input, ","))


\* ------------------------------------------------------------------------
\* CreateTask: cartesianProduct and generateParams
\* ------------------------------------------------------------------------

\* arr.map(y => [...x, y])
RECURSIVE MapAppend(_, _)
MapAppend(x, arr) ==
    IF arr = <<>> THEN <<>>
    ELSE <<Append(x, Head(arr))>> \o MapAppend(x, Tail(arr))

\* acc.flatMap(x => arr.map(y => [...x, y]))
RECURSIVE FlatMapAppend(_, _)
FlatMapAppend(acc, arr) ==
    IF acc = <<>> THEN <<>>
    ELSE MapAppend(Head(acc), arr) \o FlatMapAppend(Tail(acc), arr)

\* arrays.reduce(callback, acc)
RECURSIVE Reduce(_, _)
Reduce(arrays, acc) ==
    IF arrays = <<>> THEN acc
    ELSE Reduce(Tail(arrays), FlatMapAppend(acc, Head(arrays)))

\* mutant: the accumulator starts as [] instead of [[]]
cartesianProductEmptySeed(arrays) ==
    IF Len(arrays) = 0 THEN << <<>> >> ELSE Reduce(arrays, <<>>)

\* mutant: arr.flatMap(y => acc.map(x => [...x, y])), the new array varying slowest
RECURSIVE ReduceOuter(_, _)
ReduceOuter(arrays, acc) ==
    IF arrays = <<>> THEN acc
    ELSE ReduceOuter(Tail(arrays),
            LET arr == Head(arrays)
                RECURSIVE Outer(_)
                Outer(ys) ==
                    IF ys = <<>> THEN <<>>
                    ELSE [i \in 1..Len(acc) |-> Append(acc[i], Head(ys))] \o Outer(Tail(ys))
            IN  Outer(arr))

cartesianProductOuter(arrays) ==
    IF Len(arrays) = 0 THEN << <<>> >> ELSE ReduceOuter(arrays, << <<>> >>)

cartesianProduct(arrays) ==
    IF Len(arrays) = 0 THEN << <<>> >> ELSE Reduce(arrays, << <<>> >>)

\* mutant: the dimension is pushed even when it has no values
EntryOfKeepEmpty(field, values) == << [field |-> field, values |-> values] >>

\* if (values.length > 0) paramArrays.push({ field, values })
EntryOf(field, values) ==
    IF Len(values) > 0 THEN << [field |-> field, values |-> values] >> ELSE <<>>

\* the entry one dimension pushes onto paramArrays, if any
ParamEntry(field, config) ==
    IF config.enabled THEN EntryOf(field, parseValues(config.values)) ELSE <<>>

ParamArrays(seed, steps, cfg) ==
    ParamEntry("seed", seed) \o ParamEntry("steps", steps) \o ParamEntry("cfg", cfg)

\* combo.forEach((value, index) => params.push({node_id, field, value}))
ComboParams(nid, paramArrays, combo) ==
    [index \in 1..Len(combo) |->
        [node_id |-> nid, field |-> paramArrays[index].field, value |-> combo[index]]]

\* combinations.map(combo => params)
Materialize(nid, paramArrays, combinations) ==
    [k \in 1..Len(combinations) |-> ComboParams(nid, paramArrays, combinations[k])]

\* generateParams once paramArrays is filled
ParamsOf(nid, paramArrays) ==
    IF Len(paramArrays) = 0 THEN <<>>
    ELSE Materialize(nid, paramArrays,
            cartesianProduct([i \in 1..Len(paramArrays) |-> paramArrays[i].values]))

GenerateParams(nid, seed, steps, cfg) == ParamsOf(nid, ParamArrays(seed, steps, cfg))

\* generateParams as closed over the component's current state
generateParams == GenerateParams(nodeId, seedConfig, stepsConfig, cfgConfig)

\* ------------------------------------------------------------------------
\* Text literals used as inputs
\* ------------------------------------------------------------------------

Str_1to5 == <<"1", "-", "5">>

Str_20_30_40 == <<"2", "0", ",", "3", "0", ",", "4", "0">>

Str_7_8_9 == <<"7", ",", "8", ",", "9">>

Str_1to2 == <<"1", "-", "2">>

Str_10_20 == <<"1", "0", ",", "2", "0">>

Str_1_1 == <<"1", ",", "1">>

Str_1_1to2 == <<"1", ",", "1", "-", "2">>

Str_abc == <<"a", "b", "c">>

Str_7p5 == <<"7", ".", "5">>

\* value specifications the rows of the form are set to
SeedSpecs == {Str_1to5, Str_1to2, Str_1_1, Str_abc}

StepsSpecs == {Str_20_30_40, Str_10_20, Str_1_1to2, <<>>}

CfgSpecs == {Str_7_8_9, Str_7p5, Str_abc}

NodeIds == {"3", "12"}

\* ------------------------------------------------------------------------
\* CreateTask: state after the first render
\* ------------------------------------------------------------------------

Init ==
    /\ name = <<>>
    /\ nodeId = "3"
    /\ submitting = FALSE
    /\ error = "null"
    /\ seedConfig = [enabled |-> TRUE, values |-> Str_1to5]
    /\ stepsConfig = [enabled |-> FALSE, values |-> Str_20_30_40]
    /\ cfgConfig = [enabled |-> FALSE, values |-> Str_7_8_9]
    /\ taskCount = 5
    /\ handlers = <<>>
    /\ rowValues = Str_1to5
    /\ rowParsed = parseValues(Str_1to5)
    /\ tasks = <<>>
    /\ nextId = 1
    /\ readyState = "loading"
    /\ listener = FALSE
    /\ rootElements = 0
    /\ errorDivs = 0
    /\ reactRoots = 0
    /\ rendered = 0
    /\ setupPc = "css"
    /\ initCalls = 0
    /\ isOpen = FALSE
    /\ activeTab = "list"
    /\ worker = [pc |-> "poll", task |-> 0, k |-> 0, n |-> 0]
    /\ inflight = 0

\* ------------------------------------------------------------------------
\* CreateTask: editing the form (each setState re-renders, which recomputes
\* the memoised taskCount)
\* ------------------------------------------------------------------------

SetNodeId(id) ==
    /\ nodeId' = id
    /\ taskCount' = Len(GenerateParams(id, seedConfig, stepsConfig, cfgConfig))
    /\ UNCHANGED <<name, submitting, error, seedConfig, stepsConfig, cfgConfig, handlers, rowVars, schedVars, appVars>>

SetSeedConfig(c) ==
    /\ seedConfig' = c
    /\ taskCount' = Len(GenerateParams(nodeId, c, stepsConfig, cfgConfig))
    /\ UNCHANGED <<name, nodeId, submitting, error, stepsConfig, cfgConfig, handlers, rowVars, schedVars, appVars>>

SetStepsConfig(c) ==
    /\ stepsConfig' = c
    /\ taskCount' = Len(GenerateParams(nodeId, seedConfig, c, cfgConfig))
    /\ UNCHANGED <<name, nodeId, submitting, error, seedConfig, cfgConfig, handlers, rowVars, schedVars, appVars>>

SetCfgConfig(c) ==
    /\ cfgConfig' = c
    /\ taskCount' = Len(GenerateParams(nodeId, seedConfig, stepsConfig, c))
    /\ UNCHANGED <<name, nodeId, submitting, error, seedConfig, stepsConfig, handlers, rowVars, schedVars, appVars>>

\* checkbox onChange: setConfig({...config, enabled: e.target.checked})
ToggleSeed == SetSeedConfig([seedConfig EXCEPT !.enabled = ~seedConfig.enabled])

ToggleSteps == SetStepsConfig([stepsConfig EXCEPT !.enabled = ~stepsConfig.enabled])

ToggleCfg == SetCfgConfig([cfgConfig EXCEPT !.enabled = ~cfgConfig.enabled])

\* text input onChange: setConfig({...config, values: e.target.value});
\* the input is rendered only while the row is enabled
EditSeed(s) == seedConfig.enabled /\ SetSeedConfig([seedConfig EXCEPT !.values = s])

EditSteps(s) == stepsConfig.enabled /\ SetStepsConfig([stepsConfig EXCEPT !.values = s])

EditCfg(s) == cfgConfig.enabled /\ SetCfgConfig([cfgConfig EXCEPT !.values = s])

FormNext ==
    \/ \E id \in NodeIds : SetNodeId(id)
    \/ ToggleSeed
    \/ ToggleSteps
    \/ ToggleCfg
    \/ \E s \in SeedSpecs : EditSeed(s)
    \/ \E s \in StepsSpecs : EditSteps(s)
    \/ \E s \in CfgSpecs : EditCfg(s)

\* the form being edited, no task submitted
FormSpec == Init /\ [][FormNext]_vars


\* ------------------------------------------------------------------------
\* CreateTask: handleSubmit
\* ------------------------------------------------------------------------

ErrName == "ERR_NAME_REQUIRED"

ErrNoParams == "ERR_NO_VALID_PARAMS"

ErrNoWorkflow == "ERR_NO_WORKFLOW"

ErrCreate == "ERR_CREATE_FAILED"

ErrThrown == "ERR_THROWN"

Str_t == <<"t">>

Str_space == <<" ">>

Names == {<<>>, Str_t, Str_space}

\* what getWorkflow() resolves to: null, or a prompt that JSON.stringify
\* accepts, or one it throws on
WorkflowResults == {"null", "ok", "unserializable"}

\* what the createTask request resolves to: {success: true}, {success: false},
\* or a body (null) whose .success cannot be read
CreateResults == {"success", "failure", "null"}

SetName(n) ==
    /\ name' = n
    /\ UNCHANGED <<nodeId, submitting, error, seedConfig, stepsConfig, cfgConfig,
                   taskCount, handlers, rowVars, schedVars, appVars>>

\* the submit button's disabled attribute
SubmitDisabled == submitting \/ taskCount = 0

\* mutant: handleSubmit without the paramsList.length === 0 check
handleSubmitNoEmptyCheck ==
    /\ Len(handlers) < MaxInFlight
    /\ IF Trim(name) = <<>>
       THEN /\ error' = ErrName
            /\ UNCHANGED <<submitting, handlers>>
       ELSE /\ submitting' = TRUE
            /\ error' = "null"
            /\ handlers' = Append(handlers,
                    [pc |-> "getWorkflow", name |-> name,
                     paramsList |-> generateParams, live |-> TRUE])
    /\ UNCHANGED <<name, nodeId, seedConfig, stepsConfig, cfgConfig, taskCount, rowVars, schedVars, appVars>>

\* handleSubmit up to its first await
handleSubmit ==
    /\ Len(handlers) < MaxInFlight
    /\ IF Trim(name) = <<>>
       THEN /\ error' = ErrName
            /\ UNCHANGED <<submitting, handlers>>
       ELSE IF Len(generateParams) = 0
       THEN /\ error' = ErrNoParams
            /\ UNCHANGED <<submitting, handlers>>
       ELSE /\ submitting' = TRUE
            /\ error' = "null"
            /\ handlers' = Append(handlers,
                    [pc |-> "getWorkflow", name |-> name,
                     paramsList |-> generateParams, live |-> TRUE])
    /\ UNCHANGED <<name, nodeId, seedConfig, stepsConfig, cfgConfig, taskCount, rowVars, schedVars, appVars>>

\* the form submitted through its button (a click, or Enter in a field)
ClickSubmit == ~SubmitDisabled /\ handleSubmit

\* a submit event dispatched on the form whatever the button's state
DispatchSubmit == handleSubmit

RemoveAt(seq, i) == SubSeq(seq, 1, i - 1) \o SubSeq(seq, i + 1, Len(seq))

\* invocations of a component instance that has unmounted: their setState
\* calls no longer have any effect
Orphaned(hs) == [i \in 1..Len(hs) |-> [hs[i] EXCEPT !.live = FALSE]]

\* the state of a newly mounted CreateTask
FreshForm ==
    /\ name' = <<>>
    /\ nodeId' = "3"
    /\ submitting' = FALSE
    /\ error' = "null"
    /\ seedConfig' = [enabled |-> TRUE, values |-> Str_1to5]
    /\ stepsConfig' = [enabled |-> FALSE, values |-> Str_20_30_40]
    /\ cfgConfig' = [enabled |-> FALSE, values |-> Str_7_8_9]
    /\ taskCount' = 5

\* the panel is closed or the tab changed, and CreateTask is shown again:
\* the old instance's state is gone, its invocations run on
Remount ==
    /\ FreshForm
    /\ handlers' = Orphaned(handlers)
    /\ UNCHANGED <<rowVars, schedVars, appVars>>

\* invocation i resumes after await getWorkflow()
GetWorkflowReturns(i, w) ==
    /\ i \in 1..Len(handlers)
    /\ handlers[i].pc = "getWorkflow"
    /\ IF w = "ok"
       THEN \* createTask({name: name.trim(), workflow, params: paramsList})
            /\ handlers' = [handlers EXCEPT ![i].pc = "createTask"]
            /\ UNCHANGED <<submitting, error>>
       ELSE /\ handlers' = RemoveAt(handlers, i)
            /\ IF handlers[i].live
               THEN /\ error' = IF w = "null" THEN ErrNoWorkflow ELSE ErrThrown
                    /\ submitting' = FALSE
               ELSE UNCHANGED <<submitting, error>>
    /\ UNCHANGED <<name, nodeId, seedConfig, stepsConfig, cfgConfig, taskCount, rowVars, schedVars, appVars>>

\* invocation i resumes after await createTask(...)
CreateTaskReturns(i, r) ==
    /\ i \in 1..Len(handlers)
    /\ handlers[i].pc = "createTask"
    /\ IF r = "success"
       THEN \* setName(""); onSuccess() is App's handleTaskCreated, which
            \* switches to the list tab and so unmounts CreateTask
            /\ FreshForm
            /\ handlers' = Orphaned(RemoveAt(handlers, i))
       ELSE /\ handlers' = RemoveAt(handlers, i)
            /\ IF handlers[i].live
               THEN /\ error' = IF r = "failure" THEN ErrCreate ELSE ErrThrown
                    /\ submitting' = FALSE
               ELSE UNCHANGED <<submitting, error>>
            /\ UNCHANGED <<name, nodeId, seedConfig, stepsConfig, cfgConfig, taskCount>>
    /\ UNCHANGED <<rowVars, schedVars, appVars>>

\* the createTask requests awaiting their response
OutstandingRequests ==
    SelectSeq([i \in 1..Len(handlers) |->
                  [pc |-> handlers[i].pc,
                   body |-> [name |-> Trim(handlers[i].name),
                             params |-> handlers[i].paramsList]]],
              LAMBDA h : h.pc = "createTask")

SubmitSeedSpecs == {Str_1to5, Str_1to2, Str_abc}

SubmitNext ==
    \/ \E n \in Names : SetName(n)
    \/ ToggleSeed
    \/ \E s \in SubmitSeedSpecs : EditSeed(s)
    \/ DispatchSubmit
    \/ Remount
    \/ \E i \in 1..MaxInFlight, w \in WorkflowResults : GetWorkflowReturns(i, w)
    \/ \E i \in 1..MaxInFlight, r \in CreateResults : CreateTaskReturns(i, r)

\* the form edited and submitted
SubmitSpec == Init /\ [][SubmitNext]_vars

ClickNext ==
    \/ \E n \in Names : SetName(n)
    \/ ToggleSeed
    \/ \E s \in SubmitSeedSpecs : EditSeed(s)
    \/ ClickSubmit
    \/ Remount
    \/ \E i \in 1..MaxInFlight, w \in WorkflowResults : GetWorkflowReturns(i, w)
    \/ \E i \in 1..MaxInFlight, r \in CreateResults : CreateTaskReturns(i, r)

\* the form edited and submitted through its button only
ClickSpec == Init /\ [][ClickNext]_vars

\* ------------------------------------------------------------------------
\* Properties of generateParams
\* ------------------------------------------------------------------------

Configs == <<seedConfig, stepsConfig, cfgConfig>>

FieldNames == <<"seed", "steps", "cfg">>

EnabledDims == {d \in 1..3 : Configs[d].enabled}

SizeOf(d) == Len(parseValues(Configs[d].values))

RECURSIVE ProductOfSizes(_)
ProductOfSizes(D) ==
    IF D = {} THEN 1
    ELSE LET d == CHOOSE x \in D : TRUE
         IN  SizeOf(d) * ProductOfSizes(D \ {d})

NoRepeat(seq) == \A i, j \in 1..Len(seq) : i # j => seq[i] # seq[j]

\* N >= 1 dimensions are enabled and each parses to at least one value
AllEnabledHaveValues == EnabledDims # {} /\ \A d \in EnabledDims : SizeOf(d) >= 1

\* C1 as stated: with N enabled dimensions of sizes s1..sN (each >= 1),
\* generateParams returns s1*...*sN combinations and no two of them are equal.
C1_Original ==
    AllEnabledHaveValues =>
        /\ Len(generateParams) = ProductOfSizes(EnabledDims)
        /\ NoRepeat(generateParams)

\* C1 as amended: with N >= 1 enabled dimensions of sizes s1..sN (each >= 1),
\* generateParams returns s1*...*sN combinations, each an N-tuple of triples;
\* they are pairwise distinct whenever no dimension's value list repeats a value.
C1_CountAndDistinct ==
    AllEnabledHaveValues =>
        /\ Len(generateParams) = ProductOfSizes(EnabledDims)
        /\ \A k \in 1..Len(generateParams) :
                Len(generateParams[k]) = Cardinality(EnabledDims)
        /\ (\A d \in EnabledDims : NoRepeat(parseValues(Configs[d].values)))
                => NoRepeat(generateParams)

C1_Witness ==
    /\ AllEnabledHaveValues
    /\ Cardinality(EnabledDims) = 3
    /\ \A d \in EnabledDims : SizeOf(d) >= 2 /\ NoRepeat(parseValues(Configs[d].values))
    /\ taskCount = Len(generateParams)
    /\ taskCount >= 12

\* the participating dimensions, in the order seed, steps, cfg
RECURSIVE ParticipatingFrom(_)
ParticipatingFrom(d) ==
    IF d > 3 THEN <<>>
    ELSE (IF Configs[d].enabled /\ SizeOf(d) > 0 THEN <<d>> ELSE <<>>)
            \o ParticipatingFrom(d + 1)

Participating == ParticipatingFrom(1)

\* number of combinations over which position j keeps its value: the product
\* of the sizes of the participating dimensions after position j
RECURSIVE Weight(_)
Weight(j) ==
    IF j >= Len(Participating) THEN 1
    ELSE SizeOf(Participating[j + 1]) * Weight(j + 1)

\* the k-th combination in lexicographic order
LexCombination(k) ==
    [j \in 1..Len(Participating) |->
        LET d == Participating[j]
        IN  [node_id |-> nodeId,
             field   |-> FieldNames[d],
             value   |-> parseValues(Configs[d].values)[(((k - 1) \div Weight(j)) % SizeOf(d)) + 1]]]

Triple(f, v) == [node_id |-> nodeId, field |-> f, value |-> IntNum(v)]

SeedStepsExample ==
    /\ seedConfig = [enabled |-> TRUE, values |-> Str_1to2]
    /\ stepsConfig = [enabled |-> TRUE, values |-> Str_10_20]
    /\ ~cfgConfig.enabled

\* C2: generateParams lists the combinations in lexicographic order over the
\* dimension order seed, steps, cfg (first participating dimension slowest),
\* each dimension's values in parse order, every triple carrying nodeId;
\* seed="1-2", steps="10,20" gives (1,10),(1,20),(2,10),(2,20) in that order.
C2_LexOrder ==
    /\ Len(Participating) > 0 =>
        /\ Len(generateParams) = ProductOfSizes({Participating[j] : j \in 1..Len(Participating)})
        /\ \A k \in 1..Len(generateParams) : generateParams[k] = LexCombination(k)
    /\ SeedStepsExample =>
        generateParams =
            << <<Triple("seed", 1), Triple("steps", 10)>>,
               <<Triple("seed", 1), Triple("steps", 20)>>,
               <<Triple("seed", 2), Triple("steps", 10)>>,
               <<Triple("seed", 2), Triple("steps", 20)>> >>

C2_Witness == SeedStepsExample /\ nodeId = "12" /\ taskCount = 4


\* C4: whenever handleSubmit runs while generateParams returns the empty
\* list, it starts no invocation that could issue createTask and sets an
\* error instead; no invocation in flight ever carries an empty paramsList.
C4_EmptyRejected ==
    [][/\ (handleSubmit /\ Len(generateParams) = 0) =>
            /\ handlers' = handlers
            /\ submitting' = submitting
            /\ error' \in {ErrName, ErrNoParams}
       /\ \A i \in 1..Len(handlers') : Len(handlers'[i].paramsList) > 0]_vars

C4_Witness ==
    /\ error = ErrNoParams
    /\ Trim(name) # <<>>
    /\ Len(generateParams) = 0
    /\ OutstandingRequests = <<>>

\* the configuration of a dimension with its checkbox cleared
Disabled(config) == [config EXCEPT !.enabled = FALSE]

\* what generateParams returns for the configuration that differs from the
\* current one only in dimension d being disabled
WithDisabled(d) ==
    GenerateParams(nodeId,
                   IF d = 1 THEN Disabled(seedConfig) ELSE seedConfig,
                   IF d = 2 THEN Disabled(stepsConfig) ELSE stepsConfig,
                   IF d = 3 THEN Disabled(cfgConfig) ELSE cfgConfig)

\* C12: an enabled dimension whose text parses to zero values is excluded
\* from the product: generateParams returns the same list as for the
\* configuration that differs only in that dimension being disabled.
C12_ZeroValuesExcluded ==
    \A d \in EnabledDims : SizeOf(d) = 0 => generateParams = WithDisabled(d)

\* a dimension without values is enabled next to one that participates
C12_Witness ==
    /\ seedConfig.enabled
    /\ parseValues(seedConfig.values) = <<>>
    /\ stepsConfig.enabled
    /\ Len(parseValues(stepsConfig.values)) >= 2
    /\ Len(generateParams) = Len(parseValues(stepsConfig.values))
    /\ generateParams = WithDisabled(1)

\* C15: in the create-task form at most one createTask request is outstanding
\* at a time, no invocation of handleSubmit starts while another has not yet
\* reset submitting, and submitting is true only while an invocation that
\* will reset it is still running.
C15_OneCreateTask ==
    /\ Len(OutstandingRequests) <= 1
    /\ Len(handlers) <= 1
    /\ submitting => \E i \in 1..Len(handlers) : handlers[i].live

\* ------------------------------------------------------------------------
\* One parameter row: typing into its text input
\* ------------------------------------------------------------------------

Str_1to10by2 == <<"1", "-", "1", "0", ":", "2">>

Str_1_2_3 == <<"1", ",", "2", ",", "3">>

Str_7 == <<"7">>

Str_neg5 == <<"-", "5">>

Str_a_5 == <<"a", "-", "5">>

Str_1_b == <<"1", "-", "b">>

Str_1to5x == <<"1", "-", "5", "x">>

Str_1to5to9 == <<"1", "-", "5", "-", "9">>

Str_1to5colon == <<"1", "-", "5", ":">>

Str_12abc == <<"1", "2", "a", "b", "c">>

Str_1to5by0 == <<"1", "-", "5", ":", "0">>

Str_1to5byNeg1 == <<"1", "-", "5", ":", "-", "1">>

Str_mixed == <<"2", "-", "6", ":", "2", ",", "7", ".", "5", ",", " ", "3">>

Str_hex == <<"0", "x", "1", "f", "-", "3", "3">>

Str_exp == <<".", "5", "0", ",", "1", "e", "2">>

Str_3_1to5by0_4 == <<"3", ",", "1", "-", "5", ":", "0", ",", "4">>

Str_1to2byNeg1_7 == <<"1", "-", "2", ":", "-", "1", ",", "7">>

\* characters typed one at a time
Alphabet == {"1", "2", "-", ":", ",", ".", " ", "a"}

\* whole texts pasted into the input
PasteSpecs ==
    {Str_1to5, Str_abc, Str_7p5, Str_1_1to2, Str_1to10by2, Str_1_2_3, Str_7, Str_neg5, Str_a_5, Str_1_b,
     Str_1to5x, Str_1to5to9, Str_1to5colon, Str_12abc, Str_1to5by0, Str_1to5byNeg1, Str_mixed, Str_hex, Str_exp,
     Str_3_1to5by0_4, Str_1to2byNeg1_7}

\* onChange of the row's input: setConfig({...config, values}), and the
\* render that follows evaluates parseValues(config.values)
SetRowValues(s) ==
    /\ rowValues' = s
    /\ rowParsed' = parseValues(s)
    /\ UNCHANGED <<formVars, handlers, schedVars, appVars>>

TypeChar(c) == Len(rowValues) < MaxLen /\ SetRowValues(Append(rowValues, c))

Backspace == rowValues # <<>> /\ SetRowValues(SubSeq(rowValues, 1, Len(rowValues) - 1))

Paste(s) == SetRowValues(s)

RowNext ==
    \/ \E c \in Alphabet : TypeChar(c)
    \/ Backspace
    \/ \E s \in PasteSpecs : Paste(s)

\* one row's input edited, parseValues applied to every text it holds
ParseSpec == Init /\ [][RowNext]_vars

\* ------------------------------------------------------------------------
\* Properties of parseValues
\* ------------------------------------------------------------------------

CommaPositions(s) == {i \in 1..Len(s) : s[i] = ","}

NumSegs(s) == Cardinality(CommaPositions(s)) + 1

\* position of the k-th comma of s
KthComma(s, k) ==
    CHOOSE p \in CommaPositions(s) :
        Cardinality({q \in CommaPositions(s) : q < p}) = k - 1

SegFirst(s, i) == IF i = 1 THEN 1 ELSE KthComma(s, i - 1) + 1

SegLast(s, i) == IF i = NumSegs(s) THEN Len(s) ELSE KthComma(s, i) - 1

\* the i-th comma-separated segment of s
Seg(s, i) == SubSeq(s, SegFirst(s, i), SegLast(s, i))

\* s up to the end of segment i (i = 0: the empty text)
UpToSeg(s, i) == IF i = 0 THEN <<>> ELSE SubSeq(s, 1, SegLast(s, i))

\* s with the characters of segment i deleted
WithoutSeg(s, i) ==
    SubSeq(s, 1, SegFirst(s, i) - 1) \o SubSeq(s, SegLast(s, i) + 1, Len(s))

DecimalDigitOf(c) ==
    CHOOSE n \in 0..9 : <<"0", "1", "2", "3", "4", "5", "6", "7", "8", "9">>[n + 1] = c

IsUInt(s) == s # <<>> /\ \A i \in 1..Len(s) : s[i] \in DecDigits

RECURSIVE UIntValue(_)
UIntValue(s) ==
    IF s = <<>> THEN 0
    ELSE 10 * UIntValue(SubSeq(s, 1, Len(s) - 1)) + DecimalDigitOf(s[Len(s)])

PositionsOf(s, c) == {i \in 1..Len(s) : s[i] = c}

OnlyPosition(s, c) == CHOOSE i \in PositionsOf(s, c) : TRUE

\* start-end with unsigned decimal integers
IsRange(seg) ==
    /\ Cardinality(PositionsOf(seg, "-")) = 1
    /\ PositionsOf(seg, ":") = {}
    /\ IsUInt(SubSeq(seg, 1, OnlyPosition(seg, "-") - 1))
    /\ IsUInt(SubSeq(seg, OnlyPosition(seg, "-") + 1, Len(seg)))

\* start-end:step with unsigned decimal integers and step >= 1
IsSteppedRange(seg) ==
    /\ Cardinality(PositionsOf(seg, "-")) = 1
    /\ Cardinality(PositionsOf(seg, ":")) = 1
    /\ OnlyPosition(seg, "-") < OnlyPosition(seg, ":")
    /\ IsUInt(SubSeq(seg, 1, OnlyPosition(seg, "-") - 1))
    /\ IsUInt(SubSeq(seg, OnlyPosition(seg, "-") + 1, OnlyPosition(seg, ":") - 1))
    /\ IsUInt(SubSeq(seg, OnlyPosition(seg, ":") + 1, Len(seg)))
    /\ UIntValue(SubSeq(seg, OnlyPosition(seg, ":") + 1, Len(seg))) >= 1

WellFormedSeg(seg) == IsUInt(seg) \/ IsRange(seg) \/ IsSteppedRange(seg)

\* the integers a well-formed segment stands for
SegValues(seg) ==
    IF IsUInt(seg) THEN {UIntValue(seg)}
    ELSE LET dash  == OnlyPosition(seg, "-")
             last  == IF IsRange(seg) THEN Len(seg) ELSE OnlyPosition(seg, ":") - 1
             start == UIntValue(SubSeq(seg, 1, dash - 1))
             end   == UIntValue(SubSeq(seg, dash + 1, last))
             step  == IF IsRange(seg) THEN 1 ELSE UIntValue(SubSeq(seg, last + 2, Len(seg)))
         IN  {v \in start..end : (v - start) % step = 0}

\* a set of integers as the ascending sequence of numbers
Ascending(S) ==
    [k \in 1..Cardinality(S) |->
        IntNum(CHOOSE v \in S : Cardinality({w \in S : w < v}) = k - 1)]

RECURSIVE ExpectedFrom(_, _)
ExpectedFrom(s, i) ==
    IF i > NumSegs(s) THEN <<>>
    ELSE Ascending(SegValues(Seg(s, i))) \o ExpectedFrom(s, i + 1)

Ints(seq) == [k \in 1..Len(seq) |-> IntNum(seq[k])]

\* C8: "1-5" gives [1,2,3,4,5], "1-10:2" gives [1,3,5,7,9], "1,2,3" gives
\* [1,2,3], "abc" gives []; in general, when every segment is an unsigned
\* integer, start-end or start-end:step (step >= 1), the result is the
\* concatenation, in segment order, of each segment's values: start,
\* start+step, ... up to the largest such value <= end.
C8_ParseValues ==
    /\ rowValues = Str_1to5 => rowParsed = Ints(<<1, 2, 3, 4, 5>>)
    /\ rowValues = Str_1to10by2 => rowParsed = Ints(<<1, 3, 5, 7, 9>>)
    /\ rowValues = Str_1_2_3 => rowParsed = Ints(<<1, 2, 3>>)
    /\ rowValues = Str_abc => rowParsed = <<>>
    /\ (\A i \in 1..NumSegs(rowValues) : WellFormedSeg(Seg(rowValues, i)))
            => rowParsed = ExpectedFrom(rowValues, 1)

C8_Witness ==
    /\ rowValues = Str_1to10by2
    /\ rowParsed = Ints(<<1, 3, 5, 7, 9>>)

\* a literal number: an optional sign, then digits [. digits] or . digits
IsUDecimal(s) ==
    \/ IsUInt(s)
    \/ /\ Cardinality(PositionsOf(s, ".")) = 1
       /\ LET dot == OnlyPosition(s, ".")
          IN  /\ \A i \in 1..Len(s) : i # dot => s[i] \in DecDigits
              /\ Len(s) >= 2

IsLiteralNumber(s) ==
    \/ IsUDecimal(s)
    \/ Len(s) >= 2 /\ s[1] \in {"+", "-"} /\ IsUDecimal(Tail(s))

\* x is the number the literal lit denotes: x.m / 10^x.e = sign * digits / 10^nf
IsValueOf(x, lit) ==
    LET neg    == lit[1] = "-"
        body   == IF lit[1] \in {"+", "-"} THEN Tail(lit) ELSE lit
        digits == SelectSeq(body, LAMBDA c : c # ".")
        nf     == IF PositionsOf(body, ".") = {} THEN 0
                  ELSE Len(body) - OnlyPosition(body, ".")
        v      == IF neg THEN -UIntValue(digits) ELSE UIntValue(digits)
    IN  x.kind = "num" /\ x.m * Pow10(nf) = v * Pow10(x.e)

\* C9: every segment that is a single literal number (integer or decimal,
\* signed or unsigned) contributes exactly that one value, at its position.
C9_LiteralSegment ==
    \A i \in 1..NumSegs(rowValues) :
        IsLiteralNumber(Seg(rowValues, i)) =>
            LET before == Len(parseValues(UpToSeg(rowValues, i - 1)))
            IN  /\ Len(parseValues(UpToSeg(rowValues, i))) = before + 1
                /\ Len(rowParsed) > before
                /\ IsValueOf(rowParsed[before + 1], Seg(rowValues, i))

IsSignedNumber(s) == IsLiteralNumber(s)

\* anything that reads as a number, as start-end or as start-end:step with
\* numbers (of either sign) for start, end and step
ReadsAsNumbers(seg) ==
    \/ IsSignedNumber(seg)
    \/ \E p \in PositionsOf(seg, "-") :
        /\ IsSignedNumber(SubSeq(seg, 1, p - 1))
        /\ LET rest == SubSeq(seg, p + 1, Len(seg))
           IN  \/ IsSignedNumber(rest)
               \/ \E q \in PositionsOf(rest, ":") :
                    /\ IsSignedNumber(SubSeq(rest, 1, q - 1))
                    /\ IsSignedNumber(SubSeq(rest, q + 1, Len(rest)))

\* a segment with a bound or step that is not a number
Malformed(seg) ==
    /\ seg # <<>>
    /\ \A i \in 1..Len(seg) : seg[i] \notin WhiteSpace
    /\ ~ReadsAsNumbers(seg)

\* C10: a malformed segment is dropped: the result is the one the text
\* gives with that segment deleted (no values of its own, the others unchanged).
C10_MalformedDropped ==
    \A i \in 1..NumSegs(rowValues) :
        Malformed(Seg(rowValues, i)) =>
            rowParsed = parseValues(WithoutSeg(rowValues, i))

\* zero or a negative integer: 0, 00, -1, -0, ...
IsNonPositiveInt(s) ==
    \/ IsUInt(s) /\ UIntValue(s) = 0
    \/ Len(s) >= 2 /\ s[1] = "-" /\ IsUInt(Tail(s))

\* start-end:step with unsigned decimal start and end and a step <= 0
IsNonPositiveStepRange(seg) ==
    /\ Cardinality(PositionsOf(seg, ":")) = 1
    /\ IsRange(SubSeq(seg, 1, OnlyPosition(seg, ":") - 1))
    /\ IsNonPositiveInt(SubSeq(seg, OnlyPosition(seg, ":") + 1, Len(seg)))

\* C11: a range segment start-end:step with step <= 0 is dropped: the parse
\* ends with the result the text gives with that segment deleted (no values
\* of its own, the other segments' values unchanged).
C11_NonPositiveStepDropped ==
    \A i \in 1..NumSegs(rowValues) :
        IsNonPositiveStepRange(Seg(rowValues, i)) =>
            rowParsed = parseValues(WithoutSeg(rowValues, i))

C11_Witness ==
    /\ rowValues = Str_3_1to5by0_4
    /\ IsNonPositiveStepRange(Seg(rowValues, 2))
    /\ rowParsed = Ints(<<3, 4>>)

\* ------------------------------------------------------------------------
\* Task Store and Scheduler (service/database.py, service/scheduler.py and
\* service/api.py, as the specification describes them)
\* ------------------------------------------------------------------------

Pending == {id \in DOMAIN tasks : tasks[id].status = "pending"}

\* the pending task created first
FirstPending == CHOOSE id \in Pending : \A other \in Pending : id <= other

\* create(task) -> id, for a task of n >= 1 combinations
CreateTask(n) ==
    /\ nextId <= MaxTasks
    /\ tasks' = [id \in DOMAIN tasks \cup {nextId} |->
                    IF id = nextId
                    THEN [status |-> "pending",
                          combinations |-> [i \in 1..n |-> i],
                          total_count |-> n,
                          completed_count |-> 0]
                    ELSE tasks[id]]
    /\ nextId' = nextId + 1
    /\ UNCHANGED <<worker, inflight, formVars, handlers, rowVars, appVars>>

\* delete(id): offered by the task list for a task in any status
DeleteTask(id) ==
    /\ id \in DOMAIN tasks
    /\ tasks' = [other \in DOMAIN tasks \ {id} |-> tasks[other]]
    /\ UNCHANGED <<nextId, worker, inflight, formVars, handlers, rowVars, appVars>>

\* runTask(id): an existing task that is not running becomes pending
RunTask(id) ==
    /\ id \in DOMAIN tasks
    /\ tasks[id].status # "running"
    /\ tasks[id].completed_count <= MaxCompleted
    /\ tasks' = [tasks EXCEPT ![id].status = "pending"]
    /\ UNCHANGED <<nextId, worker, inflight, formVars, handlers, rowVars, appVars>>

\* record_progress(id, increment): a no-op when the id is gone
record_progress(ts, id, increment) ==
    IF id \in DOMAIN ts
    THEN [ts EXCEPT ![id].completed_count = @ + increment]
    ELSE ts

\* mutant: finish writes the status whether or not the id exists, so a
\* deleted task comes back as a bare record
finishUpsert(ts, id, final_status) ==
    IF id \in DOMAIN ts THEN [ts EXCEPT ![id].status = final_status]
    ELSE [other \in DOMAIN ts \cup {id} |->
            IF other = id
            THEN [status |-> final_status, combinations |-> <<>>,
                  total_count |-> 0, completed_count |-> 0]
            ELSE ts[other]]

\* finish(id, final_status): a no-op when the id is gone
finish(ts, id, final_status) ==
    IF id \in DOMAIN ts THEN [ts EXCEPT ![id].status = final_status] ELSE ts

\* a cycle of the worker's loop that finds a pending task: claim_next_pending
Claim ==
    /\ worker.pc = "poll"
    /\ Pending # {}
    /\ tasks' = [tasks EXCEPT ![FirstPending].status = "running"]
    /\ worker' = [pc |-> "submit", task |-> FirstPending, k |-> 1,
                  n |-> Len(tasks[FirstPending].combinations)]
    /\ UNCHANGED <<nextId, inflight, formVars, handlers, rowVars, appVars>>

\* mutant: the worker submits the next combination without awaiting the last
SubmitNoWait ==
    /\ worker.pc = "submit"
    /\ inflight' = inflight + 1
    /\ worker' = IF worker.k < worker.n
                 THEN [worker EXCEPT !.k = @ + 1]
                 ELSE [worker EXCEPT !.pc = "await"]
    /\ UNCHANGED <<tasks, nextId, formVars, handlers, rowVars, appVars>>

\* the worker submits combination k and blocks until it ends
Submit ==
    /\ worker.pc = "submit"
    /\ inflight' = inflight + 1
    /\ worker' = [worker EXCEPT !.pc = "await"]
    /\ UNCHANGED <<tasks, nextId, formVars, handlers, rowVars, appVars>>

\* the submission succeeds: record_progress, then the next combination, or
\* finish(completed) after the last one
SubmissionSucceeds ==
    /\ worker.pc = "await"
    /\ inflight' = inflight - 1
    /\ IF worker.k < worker.n
       THEN /\ tasks' = record_progress(tasks, worker.task, 1)
            /\ worker' = [worker EXCEPT !.pc = "submit", !.k = @ + 1]
       ELSE /\ tasks' = finish(record_progress(tasks, worker.task, 1),
                               worker.task, "completed")
            /\ worker' = [pc |-> "poll", task |-> 0, k |-> 0, n |-> 0]
    /\ UNCHANGED <<nextId, formVars, handlers, rowVars, appVars>>

\* the submission fails: finish(failed), the remaining combinations abandoned
SubmissionFails ==
    /\ worker.pc = "await"
    /\ inflight' = inflight - 1
    /\ tasks' = finish(tasks, worker.task, "failed")
    /\ worker' = [pc |-> "poll", task |-> 0, k |-> 0, n |-> 0]
    /\ UNCHANGED <<nextId, formVars, handlers, rowVars, appVars>>

\* shutdown: the cancellation signal is observed between combinations; a task
\* left running stays running in the store
Shutdown ==
    /\ worker.pc \in {"poll", "submit"}
    /\ worker' = [worker EXCEPT !.pc = "stopped"]
    /\ UNCHANGED <<tasks, nextId, inflight, formVars, handlers, rowVars, appVars>>

SchedNext ==
    \/ \E n \in 1..MaxCombos : CreateTask(n)
    \/ \E id \in 1..MaxTasks : DeleteTask(id)
    \/ \E id \in 1..MaxTasks : RunTask(id)
    \/ Claim
    \/ Submit
    \/ SubmissionSucceeds
    \/ SubmissionFails
    \/ Shutdown

\* tasks created, run, deleted and executed by the single worker
SchedSpec == Init /\ [][SchedNext]_vars

\* ------------------------------------------------------------------------
\* Properties of the Task Store and the Scheduler
\* ------------------------------------------------------------------------

StatusMachine ==
    {<<"pending", "running">>, <<"running", "completed">>, <<"running", "failed">>}

\* C5: the status of a task changes only along pending -> running ->
\* completed or running -> failed; completed and failed are terminal and no
\* claimed task is pending again, runTask on a completed or failed task
\* included.
C5_StatusMachine ==
    [][\A id \in DOMAIN tasks \cap DOMAIN tasks' :
          \/ tasks'[id].status = tasks[id].status
          \/ <<tasks[id].status, tasks'[id].status>> \in StatusMachine]_vars

\* C6: when the k-th submission of a claimed task fails, the task becomes
\* failed with completed_count = k - 1.
C6_FailFast ==
    [][(SubmissionFails /\ worker.task \in DOMAIN tasks) =>
          /\ tasks'[worker.task].status = "failed"
          /\ tasks'[worker.task].completed_count = worker.k - 1]_vars

\* C7: for every task 0 <= completed_count <= total_count, total_count is the
\* number of combinations, and completed_count never decreases.
C7_Counts ==
    /\ [](\A id \in DOMAIN tasks :
            /\ 0 <= tasks[id].completed_count
            /\ tasks[id].completed_count <= tasks[id].total_count
            /\ tasks[id].total_count = Len(tasks[id].combinations))
    /\ [][\A id \in DOMAIN tasks \cap DOMAIN tasks' :
            /\ tasks'[id].completed_count >= tasks[id].completed_count
            /\ tasks'[id].total_count = tasks[id].total_count]_vars

initAppNoCheck ==
    /\ initCalls' = initCalls + 1
    /\ rootElements' = rootElements + 1
    /\ reactRoots' = reactRoots + 1
    /\ rendered' = rendered + 1

\* initApp: return when the container exists; otherwise create the div,
\* append it to body, createRoot(container) and root.render(<App />)
initApp ==
    /\ initCalls' = initCalls + 1
    /\ IF rootElements > 0
       THEN UNCHANGED <<rootElements, reactRoots, rendered>>
       ELSE /\ rootElements' = rootElements + 1
            /\ reactRoots' = reactRoots + 1
            /\ rendered' = rendered + 1

\* the document finishes parsing: DOMContentLoaded runs the listener, if any
DOMContentLoaded ==
    /\ readyState = "loading"
    /\ readyState' = "interactive"
    /\ listener' = FALSE
    /\ IF listener THEN initApp
       ELSE UNCHANGED <<rootElements, reactRoots, rendered, initCalls>>
    /\ UNCHANGED <<errorDivs, setupPc, formVars, handlers, rowVars, schedVars, panelVars>>

\* the load event: readyState becomes "complete"
WindowLoad ==
    /\ readyState = "interactive"
    /\ readyState' = "complete"
    /\ UNCHANGED <<listener, rootElements, errorDivs, reactRoots, rendered, setupPc,
                   initCalls, formVars, handlers, rowVars, schedVars, panelVars>>

\* catch of initMiniBatcher: the error notice is appended to body
ShowError ==
    /\ errorDivs' = errorDivs + 1
    /\ setupPc' = "failed"

\* await loadCSS(...)
LoadCSS(ok) ==
    /\ setupPc = "css"
    /\ IF ok THEN setupPc' = "lib" /\ UNCHANGED errorDivs ELSE ShowError
    /\ UNCHANGED <<readyState, listener, rootElements, reactRoots, rendered, initCalls,
                   formVars, handlers, rowVars, schedVars, panelVars>>

\* await loadJS(lib-react.js), a failure being swallowed by the inner catch
LoadLibReact(ok) ==
    /\ setupPc = "lib"
    /\ setupPc' = "main"
    /\ UNCHANGED <<readyState, listener, rootElements, errorDivs, reactRoots, rendered,
                   initCalls, formVars, handlers, rowVars, schedVars, panelVars>>

\* await loadJS(index.js): the bundle is evaluated, and its last statement
\* either registers initApp for DOMContentLoaded or calls it
LoadMain(ok) ==
    /\ setupPc = "main"
    /\ IF ok
       THEN /\ setupPc' = "call"
            /\ UNCHANGED errorDivs
            /\ IF readyState = "loading"
               THEN /\ listener' = TRUE
                    /\ UNCHANGED <<rootElements, reactRoots, rendered, initCalls>>
               ELSE /\ initApp
                    /\ UNCHANGED listener
       ELSE /\ ShowError
            /\ UNCHANGED <<listener, rootElements, reactRoots, rendered, initCalls>>
    /\ UNCHANGED <<readyState, formVars, handlers, rowVars, schedVars, panelVars>>

\* if (module && typeof module.initApp === "function") module.initApp()
SetupCallsInitApp ==
    /\ setupPc = "call"
    /\ setupPc' = "done"
    /\ initApp
    /\ UNCHANGED <<readyState, listener, errorDivs, formVars, handlers, rowVars, schedVars, panelVars>>

\* setTimeout(() => errorDiv.remove(), 5000)
RemoveErrorDiv ==
    /\ errorDivs > 0
    /\ errorDivs' = errorDivs - 1
    /\ UNCHANGED <<readyState, listener, rootElements, reactRoots, rendered, setupPc,
                   initCalls, formVars, handlers, rowVars, schedVars, panelVars>>

\* any further call of the exported initApp
CallInitApp ==
    /\ setupPc \in {"call", "done"}
    /\ initCalls < MaxCalls
    /\ initApp
    /\ UNCHANGED <<readyState, listener, errorDivs, setupPc, formVars, handlers, rowVars,
                   schedVars, panelVars>>

\* App, once rendered: the floating button opens the panel
handleOpen ==
    /\ rendered > 0
    /\ isOpen' = TRUE
    /\ UNCHANGED <<activeTab, readyState, listener, rootElements, errorDivs, reactRoots,
                   rendered, setupPc, initCalls, formVars, handlers, rowVars, schedVars>>

\* the close button, or a click on the overlay
handleClose ==
    /\ rendered > 0
    /\ isOpen
    /\ isOpen' = FALSE
    /\ UNCHANGED <<activeTab, readyState, listener, rootElements, errorDivs, reactRoots,
                   rendered, setupPc, initCalls, formVars, handlers, rowVars, schedVars>>

\* a click on one of the two tabs of the open panel
SetActiveTab(tab) ==
    /\ rendered > 0
    /\ isOpen
    /\ activeTab' = tab
    /\ UNCHANGED <<isOpen, readyState, listener, rootElements, errorDivs, reactRoots,
                   rendered, setupPc, initCalls, formVars, handlers, rowVars, schedVars>>

AppNext ==
    \/ DOMContentLoaded
    \/ WindowLoad
    \/ \E ok \in BOOLEAN : LoadCSS(ok)
    \/ \E ok \in BOOLEAN : LoadLibReact(ok)
    \/ \E ok \in BOOLEAN : LoadMain(ok)
    \/ SetupCallsInitApp
    \/ RemoveErrorDiv
    \/ CallInitApp
    \/ handleOpen
    \/ handleClose
    \/ \E tab \in {"list", "create"} : SetActiveTab(tab)

\* the page loads, setup.js injects the bundle, initApp is called
AppSpec == Init /\ [][AppNext]_vars

=============================================================================
